---- MODULE Spec2Model ----
(***************************************************************************)
(* Model of Scripts/check-cask-updates.py: the Homebrew cask index build   *)
(* (token listing, concurrent detail fetch, first-writer-wins fold), the   *)
(* installed-application query, the version comparator, the matcher and    *)
(* the top-level run with its output streams and exit code.                *)
(*                                                                         *)
(* Strings the program inspects character by character (version strings)   *)
(* are sequences of one-character strings; strings it only compares or     *)
(* uses as keys (tokens, app names, messages) are TLA+ strings.            *)
(***************************************************************************)
EXTENDS Integers, Sequences, FiniteSets, TLC

VARIABLES
    \* ---- the run of main() ----
    pc,           \* position of the main thread
    tokens,       \* build_cask_database: tokens (result of get_all_cask_tokens)
    fut,          \* futures: task index -> [state, exc, value]
    app_to_cask,  \* build_cask_database: the index being built
    processed,    \* build_cask_database: counter of folded app names
    i_done,       \* build_cask_database: enumerate(as_completed) counter i
    order,        \* task indices in the order as_completed yielded them
    faulted,      \* task indices whose processing ended in the except branch
    cask_db,      \* main: the index build_cask_database returned
    apps,         \* main: the list get_installed_apps returned
    results,      \* main: the list match_apps_to_casks returned
    out,          \* every write of the run, in order: [stream, msg]
    exit_code,    \* process exit status (-1 while running)
    calls,        \* how often each collaborator was invoked, and the matcher
    \* ---- compare_versions applied to one pair ----
    cv_installed, cv_available, cv_state, cv_result,
    \* ---- get_cask_info applied to one collaborator outcome ----
    gi_token, gi_outcome, gi_state, gi_result

mainVars == <<pc, tokens, fut, app_to_cask, processed, i_done, order, faulted,
              cask_db, apps, results, out, exit_code, calls>>
cvVars   == <<cv_installed, cv_available, cv_state, cv_result>>
giVars   == <<gi_token, gi_outcome, gi_state, gi_result>>
vars     == <<mainVars, cvVars, giVars>>

----------------------------------------------------------------------------
(* Bounds of the model *)

MaxVerLen == 3      \* longest version string given to compare_versions alone
MaxTokens == 3      \* longest token list the catalog listing returns
MaxApps   == 2      \* longest installed-app list the inventory returns
PoolExtra == 1      \* tokens beyond the pool size when the pool alone is run
LiveTokens == 2     \* tokens of the build run under fair scheduling

(* Program constants *)

MAX_WORKERS   == 10
ProgressEvery == 500

----------------------------------------------------------------------------
(* Python values and exceptions *)

NoExc == "none"
\* Exception classes that derive from Exception (all that arise here do).
ExceptionClasses == {"TimeoutExpired", "JSONDecodeError", "FileNotFoundError",
                     "PermissionError", "AttributeError", "TypeError",
                     "KeyError", "IndexError", "ValueError"}

Max(a, b) == IF a >= b THEN a ELSE b

----------------------------------------------------------------------------
(* Version strings: characters *)

Whitespace == {" ", "\t"}
Digits     == {"0", "1"}
VerAlphabet == Digits \cup {".", "a"} \cup Whitespace

\* Code point order of the characters used ('\t' < ' ' < '.' < '0' < '1' < 'a').
CharRank(c) ==
    CASE c = "\t" -> 9
      [] c = " "  -> 32
      [] c = "."  -> 46
      [] c = "0"  -> 48
      [] c = "1"  -> 49
      [] c = "a"  -> 97

DigitValue(c) == CharRank(c) - 48

----------------------------------------------------------------------------
(* compare_versions and the string operations it uses *)

\* A raised exception or a returned value.
Raise(e)  == [exc |-> e, value |-> "None"]
Return(v) == [exc |-> NoExc, value |-> v]

\* str.split(): the whitespace-separated words; only the first is used.
RECURSIVE DropSpace(_)
DropSpace(s) ==
    IF s # <<>> /\ Head(s) \in Whitespace THEN DropSpace(Tail(s)) ELSE s

RECURSIVE TakeWord(_)
TakeWord(s) ==
    IF s = <<>> \/ Head(s) \in Whitespace THEN <<>>
    ELSE <<Head(s)>> \o TakeWord(Tail(s))

\* v.split()[0]: IndexError when the string holds no word.
FirstWord(v) ==
    LET rest == DropSpace(v)
    IN  IF rest = <<>> THEN [exc |-> "IndexError", value |-> <<>>]
        ELSE [exc |-> NoExc, value |-> TakeWord(rest)]

\* v.split()[0] if ' ' in v else v
CleanVersion(v) ==
    IF \E k \in 1..Len(v) : v[k] = " " THEN FirstWord(v)
    ELSE [exc |-> NoExc, value |-> v]

\* v.split('.')
RECURSIVE SplitDotAcc(_, _)
SplitDotAcc(s, cur) ==
    IF s = <<>> THEN <<cur>>
    ELSE IF Head(s) = "." THEN <<cur>> \o SplitDotAcc(Tail(s), <<>>)
    ELSE SplitDotAcc(Tail(s), Append(cur, Head(s)))

SplitDot(v) == SplitDotAcc(v, <<>>)

\* int(part): surrounding whitespace is ignored; the rest must be digits.
RECURSIVE DropSpaceEnd(_)
DropSpaceEnd(s) ==
    IF s # <<>> /\ s[Len(s)] \in Whitespace
    THEN DropSpaceEnd(SubSeq(s, 1, Len(s) - 1)) ELSE s

Strip(s) == DropSpaceEnd(DropSpace(s))

IsInt(part) ==
    LET t == Strip(part)
    IN  t # <<>> /\ \A k \in 1..Len(t) : t[k] \in Digits

RECURSIVE DecimalValue(_)
DecimalValue(t) ==
    IF t = <<>> THEN 0
    ELSE 10 * DecimalValue(SubSeq(t, 1, Len(t) - 1)) + DigitValue(t[Len(t)])

IntPart(n) == [isnum |-> TRUE,  num |-> n, str |-> <<>>]
StrPart(p) == [isnum |-> FALSE, num |-> 0, str |-> p]

\* parse_version: int(part), or the part itself on ValueError.
parse_version(v) ==
    LET ps == SplitDot(v)
    IN  [k \in 1..Len(ps) |->
            IF IsInt(ps[k]) THEN IntPart(DecimalValue(Strip(ps[k])))
            ELSE StrPart(ps[k])]

\* Mutant of PadZeros: the shorter list is not padded.
PadZeros_None(v, max_len) == v

\* v += [0] * (max_len - len(v))
PadZeros(v, max_len) ==
    v \o [k \in 1..(max_len - Len(v)) |-> IntPart(0)]

\* str < str: code point order, a proper prefix is smaller.
RECURSIVE StrLess(_, _)
StrLess(a, b) ==
    IF b = <<>> THEN FALSE
    ELSE IF a = <<>> THEN TRUE
    ELSE IF Head(a) = Head(b) THEN StrLess(Tail(a), Tail(b))
    ELSE CharRank(Head(a)) < CharRank(Head(b))

\* x < y on list elements: int < str and str < int raise TypeError.
ElemLess(x, y) ==
    IF x.isnum # y.isnum THEN [exc |-> "TypeError", value |-> FALSE]
    ELSE IF x.isnum THEN [exc |-> NoExc, value |-> x.num < y.num]
    ELSE [exc |-> NoExc, value |-> StrLess(x.str, y.str)]

\* Mutant of ListLess: <= for <, equal lists compare as smaller.
RECURSIVE ListLess_OrEqual(_, _)
ListLess_OrEqual(v1, v2) ==
    IF v1 = <<>> THEN [exc |-> NoExc, value |-> TRUE]
    ELSE IF v2 = <<>> THEN [exc |-> NoExc, value |-> FALSE]
    ELSE IF Head(v1) = Head(v2) THEN ListLess_OrEqual(Tail(v1), Tail(v2))
    ELSE ElemLess(Head(v1), Head(v2))

\* list < list: the first pair of unequal elements decides; without one the
\* shorter list is the smaller.
RECURSIVE ListLess(_, _)
ListLess(v1, v2) ==
    IF v1 = <<>> THEN [exc |-> NoExc, value |-> v2 # <<>>]
    ELSE IF v2 = <<>> THEN [exc |-> NoExc, value |-> FALSE]
    ELSE IF Head(v1) = Head(v2) THEN ListLess(Tail(v1), Tail(v2))
    ELSE ElemLess(Head(v1), Head(v2))

\* except Exception: return None (line 214)
CompareCaught(e) == e \in ExceptionClasses

\* The try block of compare_versions (lines 203-212).
CompareBody(installed_clean, available_clean) ==
    LET v1 == parse_version(installed_clean)
        v2 == parse_version(available_clean)
        max_len == Max(Len(v1), Len(v2))
        r  == ListLess(PadZeros(v1, max_len), PadZeros(v2, max_len))
    IN  IF r.exc # NoExc THEN Raise(r.exc)
        ELSE Return(IF r.value THEN "True" ELSE "False")

compare_versions(installed, available) ==
    IF installed = <<>> \/ available = <<>> THEN Return("None")
    ELSE
      LET ic == CleanVersion(installed)
          ac == CleanVersion(available)
      IN  IF ic.exc # NoExc THEN Raise(ic.exc)
          ELSE IF ac.exc # NoExc THEN Raise(ac.exc)
          ELSE LET r == CompareBody(ic.value, ac.value)
               IN  IF r.exc # NoExc /\ CompareCaught(r.exc)
                   THEN Return("None") ELSE r

\* Every string of at most n characters.
RECURSIVE StringsUpTo(_)
StringsUpTo(n) ==
    IF n = 0 THEN {<<>>}
    ELSE LET shorter == StringsUpTo(n - 1)
         IN  shorter \cup {Append(s, c) : s \in shorter, c \in VerAlphabet}

VersionStrings == StringsUpTo(MaxVerLen)

(* compare_versions applied to one pair of version strings *)

CvInit ==
    /\ cv_installed \in VersionStrings
    /\ cv_available \in VersionStrings
    /\ cv_state = "call"
    /\ cv_result = Return("None")

CvIdle ==
    /\ cv_installed = <<>> /\ cv_available = <<>>
    /\ cv_state = "idle" /\ cv_result = Return("None")

CvCompare ==
    /\ cv_state = "call"
    /\ cv_result' = compare_versions(cv_installed, cv_available)
    /\ cv_state' = IF cv_result'.exc = NoExc THEN "returned" ELSE "raised"
    /\ UNCHANGED <<cv_installed, cv_available>>
    /\ UNCHANGED <<mainVars, giVars>>

----------------------------------------------------------------------------
(* Catalog data: the JSON values the detail collaborator can answer with *)

Token(k) == ToString(k)

Ver10    == <<"1", ".", "0">>
Ver11    == <<"1", ".", "1">>
VerBlank == <<" ">>
VerEmpty == <<>>

\* An entry of an "app" list that is an object ({"target": ...}), not a name:
\* a dict is unhashable.
DictEntry == "{target}"
AppNames  == {"Foo.app", "Bar.app"}

App(items)  == [tag |-> "app",  iter |-> TRUE,  items |-> items]
Zap(items)  == [tag |-> "zap",  iter |-> TRUE,  items |-> items]
AppNull     == [tag |-> "app",  iter |-> FALSE, items |-> <<>>]   \* {"app": null}
NonDict     == [tag |-> "str",  iter |-> FALSE, items |-> <<>>]   \* a bare string

ArtifactLists ==
    { <<App(<<"Foo.app">>)>>,
      <<App(<<"Bar.app">>)>>,
      <<NonDict, Zap(<<"Zap.app">>), App(<<"Foo.app", "Bar.app">>)>>,
      <<App(<<"Bar.app", DictEntry>>), App(<<"Foo.app">>)>>,
      <<App(<<"Foo.app">>), AppNull>> }

NoneVal   == [kind |-> "None",  token |-> "", version |-> <<>>, artifacts |-> <<>>]
EmptyDict == [kind |-> "empty", token |-> "", version |-> <<>>, artifacts |-> <<>>]
Scalar    == [kind |-> "str",   token |-> "", version |-> <<>>, artifacts |-> <<>>]
Cask(t, v, a) == [kind |-> "dict", token |-> t, version |-> v, artifacts |-> a]

\* Python truth of a value: None and {} are false.
Truthy(v) == v.kind \in {"dict", "str"}

\* The version the catalog holds for a token.
VersionOf(t) ==
    CASE t = Token(1) -> Ver11
      [] t = Token(2) -> VerBlank
      [] t = Token(3) -> VerEmpty
      [] OTHER        -> Ver10

\* First elements of "casks" the collaborator can answer with for a token.
CaskValues(t) ==
    {Cask(t, VersionOf(t), a) : a \in ArtifactLists} \cup {NoneVal, EmptyDict, Scalar}

(* get_cask_info *)

FetchKinds == {"timeout", "oserror", "nonzero", "badjson"}
JsonTops   == {"not_dict", "no_casks", "casks_null", "casks_empty", "casks_int",
               "casks_dict", "casks_str"}

Outcome(kind, top, first) == [kind |-> kind, top |-> top, first |-> first]

FetchOutcomes(t) ==
    {Outcome(k, "", NoneVal) : k \in FetchKinds}
    \cup {Outcome("json", top, NoneVal) : top \in JsonTops}
    \cup {Outcome("json", "casks_list", c) : c \in CaskValues(t)}

FetchRaise(e)  == [exc |-> e, value |-> NoneVal]
FetchReturn(v) == [exc |-> NoExc, value |-> v]

\* The try block (lines 56-66); falling out of it is FetchReturn(NoneVal).
FetchBody(o) ==
    CASE o.kind = "timeout" -> FetchRaise("TimeoutExpired")
      [] o.kind = "oserror" -> FetchRaise("FileNotFoundError")
      [] o.kind = "nonzero" -> FetchReturn(NoneVal)
      [] o.kind = "badjson" -> FetchRaise("JSONDecodeError")
      [] o.kind = "json" ->
           CASE o.top = "not_dict"    -> FetchRaise("AttributeError")
             [] o.top = "no_casks"    -> FetchReturn(NoneVal)
             [] o.top = "casks_null"  -> FetchReturn(NoneVal)
             [] o.top = "casks_empty" -> FetchReturn(NoneVal)
             [] o.top = "casks_int"   -> FetchRaise("TypeError")
             [] o.top = "casks_dict"  -> FetchRaise("KeyError")
             [] o.top = "casks_str"   -> FetchReturn(Scalar)
             [] o.top = "casks_list"  -> FetchReturn(o.first)

\* Mutant of FetchCaught: only the two named exception classes are caught.
FetchCaught_Narrow(e) == e \in {"TimeoutExpired", "JSONDecodeError"}

\* except (subprocess.TimeoutExpired, json.JSONDecodeError, Exception): pass
FetchCaught(e) == e \in {"TimeoutExpired", "JSONDecodeError"} \cup ExceptionClasses

get_cask_info(token, o) ==
    LET r == FetchBody(o)
    IN  IF r.exc # NoExc /\ FetchCaught(r.exc) THEN FetchReturn(NoneVal) ELSE r

(* get_cask_info applied to one collaborator outcome *)

GiTokens == {Token(k) : k \in 1..MaxTokens}

GiInit ==
    /\ gi_token \in GiTokens
    /\ gi_outcome \in FetchOutcomes(gi_token)
    /\ gi_state = "call"
    /\ gi_result = FetchReturn(NoneVal)

GiIdle ==
    /\ gi_token = "" /\ gi_outcome = Outcome("", "", NoneVal)
    /\ gi_state = "idle" /\ gi_result = FetchReturn(NoneVal)

GiFetch ==
    /\ gi_state = "call"
    /\ gi_result' = get_cask_info(gi_token, gi_outcome)
    /\ gi_state' = IF gi_result'.exc = NoExc THEN "returned" ELSE "raised"
    /\ UNCHANGED <<gi_token, gi_outcome>>
    /\ UNCHANGED <<mainVars, cvVars>>

----------------------------------------------------------------------------
(* Output streams *)

\* Mutant of Diag: the text is printed without file=sys.stderr.
Diag_Primary(msg, arg) == [stream |-> "stdout", msg |-> msg, arg |-> arg, data |-> <<>>]

\* print(..., file=sys.stderr)
Diag(msg, arg) == [stream |-> "stderr", msg |-> msg, arg |-> arg, data |-> <<>>]
\* print(json.dumps(results, indent=2))
Primary(rs)    == [stream |-> "stdout", msg |-> "json", arg |-> "", data |-> rs]

----------------------------------------------------------------------------
(* get_all_cask_tokens *)

TokenList(n) == [k \in 1..n |-> Token(k)]

ListingOutcomes ==
    {[kind |-> k, lines |-> <<>>] : k \in {"nonzero", "timeout", "oserror"}}
    \cup {[kind |-> "ok", lines |-> TokenList(n)] : n \in 0..MaxTokens}
    \cup {[kind |-> "ok", lines |-> <<"">> \o TokenList(n)] : n \in 0..MaxTokens}

NonBlank(line) == line # ""

\* [value: the token list, log: what it printed]
get_all_cask_tokens(lo) ==
    CASE lo.kind = "nonzero" ->
           [value |-> <<>>, log |-> <<Diag("Error getting cask list", "")>>]
      [] lo.kind = "timeout" ->
           [value |-> <<>>, log |-> <<Diag("Error: brew search timed out", "")>>]
      [] lo.kind = "oserror" ->
           [value |-> <<>>, log |-> <<Diag("Error getting cask tokens", "")>>]
      [] lo.kind = "ok" ->
           [value |-> SelectSeq(lo.lines, NonBlank), log |-> <<>>]

----------------------------------------------------------------------------
(* extract_app_names_from_cask and the fold of build_cask_database *)

EmptyIndex == [n \in {} |-> NoneVal]

\* Mutant of IsAppArtifact: every tagged artifact contributes its names.
IsAppArtifact_Any(artifact) == artifact.tag \in {"app", "zap"}

\* isinstance(artifact, dict) and 'app' in artifact
IsAppArtifact(artifact) == artifact.tag = "app"

RECURSIVE ExtractFrom(_, _)
ExtractFrom(arts, app_names) ==
    IF arts = <<>> THEN [exc |-> NoExc, value |-> app_names]
    ELSE LET artifact == Head(arts)
         IN  IF IsAppArtifact(artifact)
             THEN IF ~artifact.iter
                  THEN [exc |-> "TypeError", value |-> <<>>]
                  ELSE ExtractFrom(Tail(arts), app_names \o artifact.items)
             ELSE ExtractFrom(Tail(arts), app_names)

extract_app_names_from_cask(cask_data) ==
    IF cask_data.kind # "dict"
    THEN [exc |-> "AttributeError", value |-> <<>>]
    ELSE ExtractFrom(cask_data.artifacts, <<>>)

\* if app_name not in app_to_cask: app_to_cask[app_name] = cask_data
InsertIfAbsent(db, app_name, cask_data) ==
    IF app_name \in DOMAIN db THEN db ELSE db @@ (app_name :> cask_data)

\* for app_name in app_names: ... processed += 1   (lines 124-128)
\* Hashing a dict entry raises TypeError and ends the loop.
RECURSIVE FoldNames(_, _, _, _)
FoldNames(db, cnt, app_names, cask_data) ==
    IF app_names = <<>> THEN [exc |-> NoExc, db |-> db, processed |-> cnt]
    ELSE IF Head(app_names) = DictEntry
    THEN [exc |-> "TypeError", db |-> db, processed |-> cnt]
    ELSE FoldNames(InsertIfAbsent(db, Head(app_names), cask_data), cnt + 1,
                   Tail(app_names), cask_data)

\* Mutant of FoldTask: a fault while folding one record discards the entries
\* the index held so far.
FoldTask_Discard(db, cnt, f) ==
    IF f.exc # NoExc THEN [exc |-> f.exc, db |-> EmptyIndex, processed |-> cnt]
    ELSE IF ~Truthy(f.value) THEN [exc |-> NoExc, db |-> db, processed |-> cnt]
    ELSE LET ex == extract_app_names_from_cask(f.value)
         IN  IF ex.exc # NoExc
             THEN [exc |-> ex.exc, db |-> EmptyIndex, processed |-> cnt]
             ELSE LET r == FoldNames(db, cnt, ex.value, f.value)
                  IN  IF r.exc # NoExc THEN [r EXCEPT !.db = EmptyIndex] ELSE r

\* The try block of the completion loop (lines 118-128) for one future f.
FoldTask(db, cnt, f) ==
    IF f.exc # NoExc THEN [exc |-> f.exc, db |-> db, processed |-> cnt]
    ELSE IF ~Truthy(f.value) THEN [exc |-> NoExc, db |-> db, processed |-> cnt]
    ELSE LET ex == extract_app_names_from_cask(f.value)
         IN  IF ex.exc # NoExc
             THEN [exc |-> ex.exc, db |-> db, processed |-> cnt]
             ELSE FoldNames(db, cnt, ex.value, f.value)

\* Mutant of TaskCaught: the loop has no except branch.
TaskCaught_None(e) == FALSE

\* except Exception as e  (line 130)
TaskCaught(e) == e \in ExceptionClasses

----------------------------------------------------------------------------
(* get_installed_apps *)

InvNames == {"Bar.app", "Foo", "Foo.app"}
NameRank(n) == CASE n = "Bar.app" -> 1 [] n = "Foo" -> 2 [] n = "Foo.app" -> 3

AppRec(n, v) == [hasname |-> TRUE, name |-> n, bundle_identifier |-> "id",
                 bundle_short_version |-> v]
\* a record without the "name" key
NoNameRec    == [hasname |-> FALSE, name |-> "", bundle_identifier |-> "id",
                 bundle_short_version |-> Ver10]

AppShapes == {AppRec(n, Ver10) : n \in InvNames}
             \cup {AppRec("Foo.app", VerBlank), NoNameRec}

\* ORDER BY name
SortedByName(l) ==
    \A a, b \in 1..Len(l) :
        (a < b /\ l[a].hasname /\ l[b].hasname)
            => NameRank(l[a].name) <= NameRank(l[b].name)

RECURSIVE ListsUpTo(_)
ListsUpTo(n) ==
    IF n = 0 THEN {<<>>}
    ELSE LET shorter == ListsUpTo(n - 1)
         IN  shorter \cup {Append(l, a) : l \in shorter, a \in AppShapes}

AppLists == {l \in ListsUpTo(MaxApps) : SortedByName(l)}

InventoryOutcomes ==
    {[kind |-> k, rows |-> <<>>] :
        k \in {"nonzero", "timeout", "badjson", "notfound", "permission"}}
    \cup {[kind |-> "ok", rows |-> l] : l \in AppLists}

\* The try block (lines 152-163): [exc, value, log]
InventoryBody(o) ==
    CASE o.kind = "timeout"    -> [exc |-> "TimeoutExpired", value |-> <<>>, log |-> <<>>]
      [] o.kind = "notfound"   -> [exc |-> "FileNotFoundError", value |-> <<>>, log |-> <<>>]
      [] o.kind = "permission" -> [exc |-> "PermissionError", value |-> <<>>, log |-> <<>>]
      [] o.kind = "badjson"    -> [exc |-> "JSONDecodeError", value |-> <<>>, log |-> <<>>]
      [] o.kind = "nonzero"    ->
           [exc |-> NoExc, value |-> <<>>, log |-> <<Diag("Error querying osquery", "")>>]
      [] o.kind = "ok"         -> [exc |-> NoExc, value |-> o.rows, log |-> <<>>]

\* the three except clauses (lines 165-173)
InventoryCaught(e) == e \in {"TimeoutExpired", "JSONDecodeError", "FileNotFoundError"}

get_installed_apps(o) ==
    LET r == InventoryBody(o)
    IN  IF r.exc # NoExc /\ InventoryCaught(r.exc)
        THEN [exc |-> NoExc, value |-> <<>>, log |-> <<Diag("Error: inventory", r.exc)>>]
        ELSE r

----------------------------------------------------------------------------
(* match_apps_to_casks *)

MatchRecord(app, cask_data, update_available) ==
    [app_name          |-> app.name,
     bundle_id         |-> app.bundle_identifier,
     installed_version |-> app.bundle_short_version,
     cask_token        |-> cask_data.token,
     cask_version      |-> cask_data.version,
     update_available  |-> update_available]

\* cask_db.get(app_name) followed by "if not cask_data: continue"
Known(db, app_name) == app_name \in DOMAIN db /\ Truthy(db[app_name])

RECURSIVE MatchFrom(_, _, _)
MatchFrom(rest, db, acc) ==
    IF rest = <<>> THEN [exc |-> NoExc, value |-> acc]
    ELSE LET app == Head(rest)
         IN  IF ~app.hasname THEN [exc |-> "KeyError", value |-> <<>>]
             ELSE IF ~Known(db, app.name) THEN MatchFrom(Tail(rest), db, acc)
             ELSE LET cask_data == db[app.name]
                      u == compare_versions(app.bundle_short_version, cask_data.version)
                  IN  IF u.exc # NoExc THEN [exc |-> u.exc, value |-> <<>>]
                      ELSE MatchFrom(Tail(rest), db,
                                     Append(acc, MatchRecord(app, cask_data, u.value)))

\* Mutant of match_apps_to_casks: an unknown app ends the loop (break for
\* continue).
RECURSIVE MatchBreak(_, _, _)
MatchBreak(rest, db, acc) ==
    IF rest = <<>> THEN [exc |-> NoExc, value |-> acc]
    ELSE LET app == Head(rest)
         IN  IF ~app.hasname THEN [exc |-> "KeyError", value |-> <<>>]
             ELSE IF ~Known(db, app.name) THEN [exc |-> NoExc, value |-> acc]
             ELSE LET cask_data == db[app.name]
                      u == compare_versions(app.bundle_short_version, cask_data.version)
                  IN  IF u.exc # NoExc THEN [exc |-> u.exc, value |-> <<>>]
                      ELSE MatchBreak(Tail(rest), db,
                                      Append(acc, MatchRecord(app, cask_data, u.value)))

match_apps_to_casks_Break(app_list, db) == MatchBreak(app_list, db, <<>>)

match_apps_to_casks(app_list, db) == MatchFrom(app_list, db, <<>>)

----------------------------------------------------------------------------
(* The run: main() and build_cask_database() with its worker pool *)

Queued == [state |-> "queued", exc |-> NoExc, value |-> NoneVal]

\* Invocations so far: brew search, brew info per task, osqueryi, and calls
\* of match_apps_to_casks.
NoCalls == [listing |-> 0, detail |-> <<>>, inventory |-> 0, match |-> 0]

MainInit ==
    /\ pc = "start"
    /\ tokens = <<>>
    /\ fut = <<>>
    /\ app_to_cask = EmptyIndex
    /\ processed = 0
    /\ i_done = 0
    /\ order = <<>>
    /\ faulted = {}
    /\ cask_db = EmptyIndex
    /\ apps = <<>>
    /\ results = <<>>
    /\ out = <<>>
    /\ exit_code = -1
    /\ calls = NoCalls

MainIdle ==
    /\ pc = "idle"
    /\ tokens = <<>> /\ fut = <<>> /\ app_to_cask = EmptyIndex
    /\ processed = 0 /\ i_done = 0 /\ order = <<>> /\ faulted = {}
    /\ cask_db = EmptyIndex /\ apps = <<>> /\ results = <<>>
    /\ out = <<>> /\ exit_code = -1 /\ calls = NoCalls

\* An exception nobody catches: the interpreter prints the traceback to the
\* error stream and the process exits with status 1.
Uncaught(e) ==
    /\ out' = Append(out, Diag("Traceback", e))
    /\ exit_code' = 1
    /\ pc' = "exit"

\* build_cask_database, lines 98-103: the listing yields no token.
BuildListEmpty ==
    /\ pc = "start"
    /\ \E lo \in ListingOutcomes :
         LET r == get_all_cask_tokens(lo)
         IN  /\ r.value = <<>>
             /\ out' = out \o <<Diag("Getting list of all Homebrew casks...", "")>>
                           \o r.log \o <<Diag("Failed to get cask list", "")>>
    /\ cask_db' = EmptyIndex
    /\ pc' = "built"
    /\ calls' = [calls EXCEPT !.listing = @ + 1]
    /\ UNCHANGED <<tokens, fut, app_to_cask, processed, i_done, order, faulted,
                   apps, results, exit_code>>
    /\ UNCHANGED <<cvVars, giVars>>

\* build_cask_database, lines 98-113, when the listing collaborator answers
\* lo with at least one token: every token is submitted to the pool.
SubmitWith(lo) ==
    /\ pc = "start"
    /\ LET r == get_all_cask_tokens(lo)
       IN  /\ r.value # <<>>
           /\ tokens' = r.value
           /\ fut' = [k \in 1..Len(r.value) |-> Queued]
           /\ calls' = [calls EXCEPT !.listing = @ + 1,
                                     !.detail = [k \in 1..Len(r.value) |-> 0]]
           /\ out' = out \o <<Diag("Getting list of all Homebrew casks...", "")>>
                         \o r.log
                         \o <<Diag("Found casks", ToString(Len(r.value))),
                              Diag("Building cask database...", "")>>
    /\ app_to_cask' = EmptyIndex
    /\ processed' = 0
    /\ pc' = "building"
    /\ UNCHANGED <<i_done, order, faulted, cask_db, apps, results, exit_code>>
    /\ UNCHANGED <<cvVars, giVars>>

BuildSubmit == \E lo \in ListingOutcomes : SubmitWith(lo)

Running == {k \in DOMAIN fut : fut[k].state = "running"}

\* Mutant of PoolHasIdleWorker: the pool starts a thread per task.
PoolHasIdleWorker_Unbounded == TRUE

\* ThreadPoolExecutor(max_workers=MAX_WORKERS): a thread is free.
PoolHasIdleWorker == Cardinality(Running) < MAX_WORKERS

\* Mutant of WorkerStart: a task that ended without a record is run again.
WorkerStart_Retry(k) ==
    /\ pc = "building"
    /\ \/ fut[k].state = "queued"
       \/ fut[k].state = "finished" /\ ~Truthy(fut[k].value)
    /\ PoolHasIdleWorker
    /\ fut' = [fut EXCEPT ![k] = [Queued EXCEPT !.state = "running"]]
    /\ UNCHANGED <<pc, tokens, app_to_cask, processed, i_done, order, faulted,
                   cask_db, apps, results, out, exit_code, calls>>
    /\ UNCHANGED <<cvVars, giVars>>

\* A pool thread takes a queued task (at most MAX_WORKERS threads).
WorkerStart(k) ==
    /\ pc = "building"
    /\ fut[k].state = "queued"
    /\ PoolHasIdleWorker
    /\ fut' = [fut EXCEPT ![k].state = "running"]
    /\ UNCHANGED <<pc, tokens, app_to_cask, processed, i_done, order, faulted,
                   cask_db, apps, results, out, exit_code, calls>>
    /\ UNCHANGED <<cvVars, giVars>>

\* Mutant of WorkerFinishWith: the worker thread itself folds its record
\* into the shared index.
WorkerFinishWith_Folds(k, o) ==
    /\ pc = "building"
    /\ fut[k].state = "running"
    /\ LET r == get_cask_info(tokens[k], o)
           f == [state |-> "finished", exc |-> r.exc, value |-> r.value]
       IN  /\ fut' = [fut EXCEPT ![k] = f]
           /\ app_to_cask' = FoldTask(app_to_cask, processed, f).db
    /\ calls' = [calls EXCEPT !.detail[k] = @ + 1]
    /\ UNCHANGED <<pc, tokens, processed, i_done, order, faulted,
                   cask_db, apps, results, out, exit_code>>
    /\ UNCHANGED <<cvVars, giVars>>

\* The task get_cask_info(token) runs brew info once, gets the answer o and
\* ends; its result is stored in the future.
WorkerFinishWith(k, o) ==
    /\ pc = "building"
    /\ fut[k].state = "running"
    /\ LET r == get_cask_info(tokens[k], o)
       IN  fut' = [fut EXCEPT ![k] = [state |-> "finished", exc |-> r.exc,
                                      value |-> r.value]]
    /\ calls' = [calls EXCEPT !.detail[k] = @ + 1]
    /\ UNCHANGED <<pc, tokens, app_to_cask, processed, i_done, order, faulted,
                   cask_db, apps, results, out, exit_code>>
    /\ UNCHANGED <<cvVars, giVars>>

WorkerFinish(k) == \E o \in FetchOutcomes(tokens[k]) : WorkerFinishWith(k, o)

\* One iteration of the as_completed loop (lines 115-135) on a finished future.
ProcessCompletion(k) ==
    /\ pc = "building"
    /\ fut[k].state = "finished"
    /\ LET r == FoldTask(app_to_cask, processed, fut[k])
           i == i_done + 1
           progress == IF i % ProgressEvery = 0
                       THEN <<Diag("Processed casks", ToString(i))>> ELSE <<>>
       IN  IF r.exc # NoExc /\ ~TaskCaught(r.exc)
           THEN /\ Uncaught(r.exc)
                /\ UNCHANGED <<app_to_cask, processed, i_done, order, faulted, fut>>
           ELSE /\ app_to_cask' = r.db
                /\ processed' = r.processed
                /\ i_done' = i
                /\ order' = Append(order, k)
                /\ fut' = [fut EXCEPT ![k].state = "processed"]
                /\ faulted' = IF r.exc # NoExc THEN faulted \cup {k} ELSE faulted
                /\ out' = out
                          \o (IF r.exc # NoExc
                              THEN <<Diag("Error processing cask", tokens[k])>>
                              ELSE <<>>)
                          \o progress
                /\ UNCHANGED <<pc, exit_code>>
    /\ UNCHANGED <<tokens, cask_db, apps, results, calls>>
    /\ UNCHANGED <<cvVars, giVars>>

\* Lines 137-138: the loop and the pool are done, the index is returned.
BuildReturn ==
    /\ pc = "building"
    /\ \A k \in DOMAIN fut : fut[k].state = "processed"
    /\ out' = Append(out, Diag("Built database", ToString(Cardinality(DOMAIN app_to_cask))))
    /\ cask_db' = app_to_cask
    /\ pc' = "built"
    /\ UNCHANGED <<tokens, fut, app_to_cask, processed, i_done, order, faulted,
                   apps, results, exit_code, calls>>
    /\ UNCHANGED <<cvVars, giVars>>

\* Mutant of MainBuildFailed: main reports the empty index and queries the
\* inventory all the same before it exits.
MainBuildFailed_NoReturn ==
    /\ pc = "built"
    /\ DOMAIN cask_db = {}
    /\ out' = out \o <<Diag("Failed to build cask database", ""),
                        Diag("Querying osquery for installed apps...", "")>>
    /\ calls' = [calls EXCEPT !.inventory = @ + 1]
    /\ exit_code' = 1
    /\ pc' = "exit"
    /\ UNCHANGED <<tokens, fut, app_to_cask, processed, i_done, order, faulted,
                   cask_db, apps, results>>
    /\ UNCHANGED <<cvVars, giVars>>

\* main, lines 259-261: the index is empty.
MainBuildFailed ==
    /\ pc = "built"
    /\ DOMAIN cask_db = {}
    /\ out' = Append(out, Diag("Failed to build cask database", ""))
    /\ exit_code' = 1
    /\ pc' = "exit"
    /\ UNCHANGED <<tokens, fut, app_to_cask, processed, i_done, order, faulted,
                   cask_db, apps, results, calls>>
    /\ UNCHANGED <<cvVars, giVars>>

\* main, lines 264-271: the inventory query.  The locals of
\* build_cask_database are gone once main goes on.
MainQuery ==
    /\ pc = "built"
    /\ DOMAIN cask_db # {}
    /\ \E o \in InventoryOutcomes :
         LET r == get_installed_apps(o)
             asked == Append(out, Diag("Querying osquery for installed apps...", ""))
         IN  IF r.exc # NoExc
             THEN /\ out' = Append(asked, Diag("Traceback", r.exc))
                  /\ exit_code' = 1
                  /\ pc' = "exit"
                  /\ apps' = <<>>
             ELSE /\ apps' = r.value
                  /\ IF r.value = <<>>
                     THEN /\ out' = asked \o r.log
                                    \o <<Diag("No apps found or query failed", "")>>
                          /\ exit_code' = 1
                          /\ pc' = "exit"
                     ELSE /\ out' = asked \o r.log
                                    \o <<Diag("Found apps", ToString(Len(r.value)))>>
                          /\ exit_code' = exit_code
                          /\ pc' = "match"
    /\ tokens' = <<>> /\ fut' = <<>> /\ app_to_cask' = EmptyIndex
    /\ processed' = 0 /\ i_done' = 0 /\ order' = <<>> /\ faulted' = {}
    /\ calls' = [calls EXCEPT !.inventory = @ + 1]
    /\ UNCHANGED <<cask_db, results>>
    /\ UNCHANGED <<cvVars, giVars>>

\* main, lines 274-275: match_apps_to_casks returns or raises.
MainMatch ==
    /\ pc = "match"
    /\ LET r == match_apps_to_casks(apps, cask_db)
           told == Append(out, Diag("Matching apps to casks...", ""))
       IN  IF r.exc # NoExc
           THEN /\ out' = Append(told, Diag("Traceback", r.exc))
                /\ exit_code' = 1
                /\ pc' = "exit"
                /\ results' = <<>>
           ELSE /\ out' = told
                /\ results' = r.value
                /\ pc' = "matched"
                /\ exit_code' = exit_code
    /\ calls' = [calls EXCEPT !.match = @ + 1]
    /\ UNCHANGED <<tokens, fut, app_to_cask, processed, i_done, order, faulted,
                   cask_db, apps>>
    /\ UNCHANGED <<cvVars, giVars>>

IsUpdate(r) == r.update_available = "True"

\* main, lines 277-289: the report and the JSON on the primary stream.
MainReport ==
    /\ pc = "matched"
    /\ LET updates_available == Len(SelectSeq(results, IsUpdate))
       IN  out' = out
                  \o <<Diag("Matched apps", ToString(Len(results)))>>
                  \o (IF updates_available # 0
                      THEN <<Diag("Found apps with updates", ToString(updates_available))>>
                      ELSE <<>>)
                  \o <<Diag("---", ""), Primary(results)>>
    /\ exit_code' = 0
    /\ pc' = "exit"
    /\ UNCHANGED <<tokens, fut, app_to_cask, processed, i_done, order, faulted,
                   cask_db, apps, results, calls>>
    /\ UNCHANGED <<cvVars, giVars>>

MainNext ==
    \/ BuildListEmpty
    \/ BuildSubmit
    \/ \E k \in DOMAIN fut : WorkerStart(k)
    \/ \E k \in DOMAIN fut : WorkerFinish(k)
    \/ \E k \in DOMAIN fut : ProcessCompletion(k)
    \/ BuildReturn
    \/ MainBuildFailed
    \/ MainQuery
    \/ MainMatch
    \/ MainReport

----------------------------------------------------------------------------
(* Specifications *)

\* One run of the program.
Init == MainInit /\ CvIdle /\ GiIdle
Next == MainNext
Spec == Init /\ [][Next]_vars

\* compare_versions on every pair of version strings of the bounded set.
InitCmp == MainIdle /\ CvInit /\ GiIdle
NextCmp == CvCompare
SpecCmp == InitCmp /\ [][NextCmp]_vars

\* get_cask_info on every collaborator outcome of the bounded set.
InitFetch == MainIdle /\ CvIdle /\ GiInit
NextFetch == GiFetch
SpecFetch == InitFetch /\ [][NextFetch]_vars

\* The worker pool alone, with more tokens than threads: the listing answers
\* MAX_WORKERS + PoolExtra tokens and every brew info times out.
PoolSubmit == SubmitWith([kind |-> "ok", lines |-> TokenList(MAX_WORKERS + PoolExtra)])
PoolFinish(k) == WorkerFinishWith(k, Outcome("timeout", "", NoneVal))
NextPool ==
    \/ PoolSubmit
    \/ \E k \in DOMAIN fut : WorkerStart(k)
    \/ \E k \in DOMAIN fut : PoolFinish(k)
SpecPool == Init /\ [][NextPool]_vars

\* The index build under fair scheduling: a runnable pool thread runs, a
\* running brew info ends (it is bounded by its timeout), and the main thread
\* goes on.  The listing answers LiveTokens tokens.
Fairness ==
    /\ WF_vars(\E k \in DOMAIN fut : WorkerStart(k))
    /\ WF_vars(\E k \in DOMAIN fut : WorkerFinish(k))
    /\ WF_vars(\E k \in DOMAIN fut : ProcessCompletion(k))
    /\ WF_vars(BuildReturn)
LiveSubmit == SubmitWith([kind |-> "ok", lines |-> TokenList(LiveTokens)])
NextLive ==
    \/ LiveSubmit
    \/ \E k \in DOMAIN fut : WorkerStart(k)
    \/ \E k \in DOMAIN fut : WorkerFinish(k)
    \/ \E k \in DOMAIN fut : ProcessCompletion(k)
    \/ BuildReturn
SpecLive == Init /\ [][NextLive]_vars /\ Fairness

----------------------------------------------------------------------------
(* Properties *)

\* The app names a record declares: the names listed under its "app" artifacts.
DeclaredNames(v) ==
    IF v.kind # "dict" THEN {}
    ELSE {n \in AppNames \cup {"Zap.app"} :
            \E a \in 1..Len(v.artifacts) :
                /\ v.artifacts[a].tag = "app"
                /\ \E j \in 1..Len(v.artifacts[a].items) : v.artifacts[a].items[j] = n}

\* A successful (non-null) fetch whose completion the loop has processed.
Successful(k) ==
    fut[k].state = "processed" /\ fut[k].exc = NoExc /\ fut[k].value.kind = "dict"

\* build_cask_database has returned from its completion loop.
BuildDone == pc = "built" /\ tokens # <<>>

\* C1 (as claimed): when the build returns, each key of the index maps to the
\* record of the first-processed successful fetch that declared that app name.
C1_FirstDeclarerWins ==
    BuildDone =>
        \A n \in DOMAIN app_to_cask :
            \E j \in 1..Len(order) :
                /\ Successful(order[j])
                /\ n \in DeclaredNames(fut[order[j]].value)
                /\ app_to_cask[n] = fut[order[j]].value
                /\ \A h \in 1..(j - 1) : n \notin DeclaredNames(fut[order[h]].value)

C3_FaultIsolation ==
    /\ (pc \in {"built", "exit"} /\ fut # <<>>) =>
          \A k \in DOMAIN fut : fut[k].state = "processed"
    /\ BuildDone =>
          \A k \in DOMAIN fut :
              (k \notin faulted /\ Successful(k)) =>
                  DeclaredNames(fut[k].value) \subseteq DOMAIN app_to_cask

\* C3 witness: a task faulted and a task processed after it put its name in
\* the index.
C3_Witness ==
    /\ BuildDone
    /\ \E h, j \in 1..Len(order) :
          /\ h < j
          /\ order[h] \in faulted
          /\ order[j] \notin faulted
          /\ \E n \in DOMAIN app_to_cask : app_to_cask[n] = fut[order[j]].value

\* C4 (as claimed): when the build returns, every app name declared by a
\* successfully fetched record is a key of the index.
C4_CompleteFolding ==
    BuildDone =>
        \A k \in DOMAIN fut :
            Successful(k) => DeclaredNames(fut[k].value) \subseteq DOMAIN app_to_cask

\* The first element of "casks" in a collaborator answer, if it has one.
FirstOfCasks(o) ==
    IF o.kind = "json" /\ o.top = "casks_list" THEN {o.first}
    ELSE IF o.kind = "json" /\ o.top = "casks_str" THEN {Scalar}
    ELSE {}

\* C5: get_cask_info never raises; it returns the first element of "casks"
\* or null.
C5_FetchNeverRaises ==
    gi_state # "call" =>
        /\ gi_state = "returned"
        /\ gi_result.exc = NoExc
        /\ gi_result.value \in {NoneVal} \cup FirstOfCasks(gi_outcome)
        /\ (gi_outcome.kind # "json" => gi_result.value = NoneVal)

\* C5 witness: a JSON answer of unexpected shape was turned into null.
C5_Witness ==
    /\ gi_state = "returned"
    /\ gi_outcome.kind = "json" /\ gi_outcome.top = "casks_dict"
    /\ gi_result.value = NoneVal

\* C6 (as claimed): the run exits with 1 if the index or the inventory is
\* empty and with 0 in every other case.
C6_ExitCodes ==
    pc = "exit" =>
        /\ exit_code \in {0, 1}
        /\ exit_code = 1 <=> (DOMAIN cask_db = {} \/ apps = <<>>)

IsPrimary(w) == w.stream = "stdout"

\* C7: diagnostics go to the error stream only; the primary stream gets
\* nothing in a run that exits with 1 and exactly one write, the JSON array
\* of the results, as the last write of a run that exits with 0.
C7_StreamDiscipline ==
    /\ \A j \in 1..Len(out) : out[j].stream = "stdout" <=> out[j].msg = "json"
    /\ (pc # "exit" \/ exit_code = 1) => SelectSeq(out, IsPrimary) = <<>>
    /\ (pc = "exit" /\ exit_code = 0) =>
          /\ SelectSeq(out, IsPrimary) = <<Primary(results)>>
          /\ out[Len(out)] = Primary(results)

\* C7 witness: a run that logged a task fault and ended with 0 after
\* writing a non-empty result.
C7_Witness ==
    /\ pc = "exit" /\ exit_code = 0
    /\ results # <<>>
    /\ \E j \in 1..Len(out) : out[j].msg = "Error processing cask"

\* C8 (as claimed): compare_versions returns true, false or null for every
\* pair of strings and never raises.
C8_ComparatorTotal ==
    cv_state # "call" =>
        /\ cv_state = "returned"
        /\ cv_result.exc = NoExc
        /\ cv_result.value \in {"True", "False", "None"}

C9_InIndex(app) == app.hasname /\ app.name \in DOMAIN cask_db

\* C9: whenever match_apps_to_casks returns, its result is the installed-app
\* list filtered by membership of the exact name in the index, in the same
\* order and without deduplication.
C9_MatcherIsFilter ==
    (pc = "matched" \/ (pc = "exit" /\ exit_code = 0)) =>
        LET hit == SelectSeq(apps, C9_InIndex)
        IN  /\ Len(results) = Len(hit)
            /\ Len(results) <= Len(apps)
            /\ \A j \in 1..Len(hit) :
                  /\ results[j].app_name = hit[j].name
                  /\ results[j].bundle_id = hit[j].bundle_identifier
                  /\ results[j].installed_version = hit[j].bundle_short_version
                  /\ results[j].cask_token = cask_db[hit[j].name].token
                  /\ results[j].cask_version = cask_db[hit[j].name].version

\* C9 witness: "Foo" is installed next to "Foo.app", only Foo.app is a key,
\* and only Foo.app is reported.
C9_Witness ==
    /\ pc = "matched"
    /\ Len(apps) = 2
    /\ apps[1].name = "Foo" /\ apps[2].name = "Foo.app"
    /\ "Foo.app" \in DOMAIN cask_db
    /\ Len(results) = 1
    /\ results[1].app_name = "Foo.app"

\* Right-padding with integer zeros and the strict lexicographic order.
C10_Pad(s, n) == [k \in 1..n |-> IF k <= Len(s) THEN s[k] ELSE IntPart(0)]

C10_Less(x, y) ==
    \/ x.isnum /\ y.isnum /\ x.num < y.num
    \/ ~x.isnum /\ ~y.isnum /\ StrLess(x.str, y.str)

C10_SeqLess(a, b) ==
    \E k \in 1..Len(a) :
        /\ \A j \in 1..(k - 1) : a[j] = b[j]
        /\ a[k] # b[k]
        /\ C10_Less(a[k], b[k])

\* C10: for two non-empty version strings compare_versions returns true iff
\* the padded installed sequence is strictly below the padded available
\* sequence, the first differing element deciding; equal padded sequences
\* (1.2 and 1.2.0) give false.
C10_ComparatorOrdering ==
    (cv_state = "returned" /\ cv_installed # <<>> /\ cv_available # <<>>) =>
        LET p1 == parse_version(CleanVersion(cv_installed).value)
            p2 == parse_version(CleanVersion(cv_available).value)
            n  == Max(Len(p1), Len(p2))
            a  == C10_Pad(p1, n)
            b  == C10_Pad(p2, n)
        IN  /\ cv_result.value = "True" <=> C10_SeqLess(a, b)
            /\ a = b => cv_result.value = "False"

\* C10 witness: "1" against "1.0" compared as not newer.
C10_Witness ==
    /\ cv_state = "returned"
    /\ cv_installed = <<"1">>
    /\ cv_available = <<"1", ".", "0">>
    /\ cv_result.value = "False"

\* Both cleanings return and give the same string.
C11_CleanedEqual ==
    /\ CleanVersion(cv_installed).exc = NoExc
    /\ CleanVersion(cv_available).exc = NoExc
    /\ CleanVersion(cv_installed).value = CleanVersion(cv_available).value

C12_Before(v) ==
    LET ws == {k \in 1..Len(v) : v[k] \in Whitespace}
    IN  IF ws = {} THEN v
        ELSE SubSeq(v, 1, (CHOOSE k \in ws : \A j \in ws : k <= j) - 1)

\* C12 (as claimed): two non-empty installed versions that agree up to their
\* first whitespace give the same result against the same available version.
C12_CleaningPrefix ==
    (cv_state # "call" /\ cv_installed # <<>>) =>
        \A other \in VersionStrings \ {<<>>} :
            C12_Before(other) = C12_Before(cv_installed) =>
                compare_versions(other, cv_available) = cv_result

\* C13 (as claimed): get_installed_apps returns a list on every outcome of the
\* inventory collaborator and never raises to main: the write that follows
\* "Querying osquery for installed apps..." is never a traceback.
C13_InventoryNeverRaises ==
    \A j \in 1..Len(out) :
        (out[j].msg = "Querying osquery for installed apps..." /\ j < Len(out))
            => out[j + 1].msg # "Traceback"

\* An installed app the matcher can handle: it has a name, the index knows
\* the name, and the comparison of its versions returns.
C14_Usable(app) ==
    /\ app.hasname
    /\ Known(cask_db, app.name)
    /\ compare_versions(app.bundle_short_version, cask_db[app.name].version).exc = NoExc

\* C14 (as claimed): a failure on one installed app is recovered for that app
\* alone.  A run whose index and inventory are both non-empty ends with exit
\* status 0 and has emitted one record for every app the matcher can handle,
\* whatever the other inventory rows look like.
C14_FailureGranularity ==
    (pc = "exit" /\ DOMAIN cask_db # {} /\ apps # <<>>) =>
        /\ exit_code = 0
        /\ \A j \in 1..Len(apps) :
              C14_Usable(apps[j]) =>
                  \E h \in 1..Len(results) : results[h].app_name = apps[j].name

\* C15: during the index build at most MAX_WORKERS detail fetches run at the
\* same time, however many tokens were submitted, and every token of the
\* listing has a task in the pool.
C15_BoundedConcurrency ==
    /\ Cardinality(Running) <= MAX_WORKERS
    /\ pc = "building" =>
          /\ DOMAIN fut = DOMAIN tokens
          /\ \A k \in DOMAIN fut :
                fut[k].state \in {"queued", "running", "finished", "processed"}

\* The pool is full while a submitted task still waits for a thread.
C15_Witness ==
    /\ pc = "building"
    /\ Len(tokens) > MAX_WORKERS
    /\ Cardinality(Running) = MAX_WORKERS
    /\ \E k \in DOMAIN fut : fut[k].state = "queued"

\* A step of a pool thread: some task goes from queued to running or from
\* running to finished.
C16_WorkerStep ==
    \E k \in DOMAIN fut :
        /\ k \in DOMAIN fut'
        /\ \/ fut[k].state = "queued" /\ fut'[k].state = "running"
           \/ fut[k].state = "running" /\ fut'[k].state = "finished"

\* A step of the completion loop on task k: k goes from finished to processed
\* and no other task moves.
C16_DrainStep(k) ==
    /\ fut[k].state = "finished"
    /\ fut' = [fut EXCEPT ![k].state = "processed"]
    /\ order' = Append(order, k)

\* C16: only the coordinating thread touches the index.  No step of a pool
\* thread changes it, and every change of it during the build is the whole
\* fold of one completion (all its membership tests and writes) done in one
\* step of the completion loop, in which no task moves.
C16_SerializedIndex ==
    [][/\ C16_WorkerStep => app_to_cask' = app_to_cask
       /\ (pc = "building" /\ pc' = "building" /\ app_to_cask' # app_to_cask) =>
             \E k \in DOMAIN fut :
                 /\ C16_DrainStep(k)
                 /\ app_to_cask' = FoldTask(app_to_cask, processed, fut[k]).db]_vars

\* A pool thread is running while the index already holds "Foo.app" and a
\* second record declaring "Foo.app" waits to be folded.
C16_Witness ==
    /\ pc = "building"
    /\ "Foo.app" \in DOMAIN app_to_cask
    /\ \E a, b \in DOMAIN fut :
          /\ fut[a].state = "running"
          /\ fut[b].state = "finished" /\ fut[b].exc = NoExc
          /\ "Foo.app" \in DeclaredNames(fut[b].value)

\* C17: no retries.  The listing collaborator is invoked exactly once, the
\* detail collaborator exactly once per entry of the token list (a task that
\* has ended was invoked once, one that has not ended not yet, and none is
\* invoked again after a timeout or a failure), and the inventory
\* collaborator at most once.
C17_NoRetries ==
    /\ calls.listing = (IF pc = "start" THEN 0 ELSE 1)
    /\ calls.inventory <= 1
    /\ \A k \in DOMAIN calls.detail : calls.detail[k] <= 1
    /\ pc = "building" =>
          /\ DOMAIN calls.detail = DOMAIN tokens
          /\ \A k \in DOMAIN fut :
                calls.detail[k] =
                    (IF fut[k].state \in {"finished", "processed"} THEN 1 ELSE 0)
    /\ pc \notin {"start", "building"} =>
          \A k \in DOMAIN calls.detail : calls.detail[k] = 1

\* The build has returned after a fetch that gave no record (timeout or
\* failure) and one whose record could not be folded; each was invoked once.
C17_Witness ==
    /\ BuildDone
    /\ calls.listing = 1
    /\ \E a, b \in DOMAIN fut :
          /\ fut[a].state = "processed" /\ fut[a].exc = NoExc
          /\ fut[a].value = NoneVal /\ calls.detail[a] = 1
          /\ fut[b].state = "processed" /\ b \in faulted
          /\ calls.detail[b] = 1

\* C18: stage ordering and fail-fast.  The inventory is queried only after
\* the build has returned a non-empty index, matching starts only after the
\* inventory returned a non-empty list; with an empty token listing no detail
\* fetch is submitted, and with an empty index the inventory is never queried.
C18_StageOrdering ==
    /\ pc \in {"start", "building"} => (calls.inventory = 0 /\ calls.match = 0)
    /\ calls.inventory > 0 => DOMAIN cask_db # {}
    /\ calls.match > 0 => (calls.inventory = 1 /\ apps # <<>>)
    /\ pc = "match" => (calls.inventory = 1 /\ apps # <<>>)
    /\ (\E j \in 1..Len(out) : out[j].msg = "Failed to get cask list") =>
          (fut = <<>> /\ calls.detail = <<>>)
    /\ (pc \in {"built", "exit"} /\ DOMAIN cask_db = {}) => calls.inventory = 0

\* A run that went through all three stages in order.
C18_Witness ==
    /\ pc = "exit"
    /\ calls.listing = 1 /\ calls.detail # <<>>
    /\ calls.inventory = 1 /\ calls.match = 1
    /\ DOMAIN cask_db # {} /\ apps # <<>>

\* The completion loop has handled the completion of every submitted token
\* exactly once.
C19_EachProcessedOnce ==
    /\ Len(order) = Len(tokens)
    /\ \A k \in DOMAIN tokens :
          Cardinality({j \in 1..Len(order) : order[j] = k}) = 1

\* C19: under fair scheduling of the pool threads, with every detail fetch
\* ending, a build that has submitted its tokens eventually returns, having
\* processed the completion of every token exactly once, whichever tasks
\* returned null or faulted.
C19_BuildTerminates ==
    (pc = "building") ~> (BuildDone /\ C19_EachProcessedOnce)

\* The build has returned although one task gave null and another faulted
\* in the fold.
C19_Witness ==
    /\ BuildDone /\ C19_EachProcessedOnce
    /\ \E a, b \in DOMAIN fut :
          /\ fut[a].value = NoneVal
          /\ b \in faulted

\* The index obtained by folding the fetch results in token order, tasks k..n.
RECURSIVE C20_FoldInTokenOrder(_, _)
C20_FoldInTokenOrder(k, db) ==
    IF k > Len(fut) THEN db
    ELSE C20_FoldInTokenOrder(k + 1, FoldTask(db, 0, fut[k]).db)

\* The successfully fetched records that declare the app name n.
C20_Declarers(n) ==
    {k \in DOMAIN fut : Successful(k) /\ n \in DeclaredNames(fut[k].value)}

\* No app name is declared by two different successfully fetched records.
C20_NoCollision ==
    \A n \in AppNames \cup {"Zap.app"} : Cardinality(C20_Declarers(n)) <= 1

\* C20: determinism outside collisions.  When the build returns, the index is
\* a function of the fetch outcomes alone (the fold in token order) whenever
\* no name is declared by two successful records, whatever the completion
\* order was; in general the key set is that of the fold in token order and
\* the index differs from it only at names declared by more than one record.
C20_DeterministicOutsideCollisions ==
    BuildDone =>
        LET canonical == C20_FoldInTokenOrder(1, EmptyIndex)
        IN  /\ C20_NoCollision => app_to_cask = canonical
            /\ DOMAIN app_to_cask = DOMAIN canonical
            /\ \A n \in DOMAIN app_to_cask :
                  app_to_cask[n] # canonical[n] => Cardinality(C20_Declarers(n)) > 1

\* Two records without a common name were folded against the token order,
\* after a task that gave no record.
C20_Witness ==
    /\ BuildDone /\ C20_NoCollision
    /\ \E h, i, j \in 1..Len(order) :
          /\ h < i /\ i < j /\ order[i] > order[j]
          /\ fut[order[h]].value = NoneVal
          /\ \E n, m \in DOMAIN app_to_cask :
                /\ app_to_cask[n] = fut[order[i]].value
                /\ app_to_cask[m] = fut[order[j]].value
                /\ n # m

====
